---- MODULE Spec2Model ----
(***************************************************************************)
(* Smart Tourist Safety: the backend REST API (auth, alerts, locations),   *)
(* its auth middleware and route mounting, and the RAG service's mounting, *)
(* modelled handler by handler from the TypeScript sources.                *)
(*                                                                         *)
(* The database (Supabase/PostgREST) is modelled by its tables as sets of  *)
(* rows.  A supabase call never throws: it returns {data, error}, and any  *)
(* call may return an error; the inputs named ...Ok below are that choice. *)
(* Time is the clock jsonwebtoken stamps into iat (whole seconds); the     *)
(* token lifetimes are scaled down to a few ticks.                         *)
(***************************************************************************)
EXTENDS FiniteSets, Integers, Sequences, TLC

VARIABLES
  now,             \* the clock, in ticks of jsonwebtoken's iat
  tourists,        \* table tourists
  refresh_tokens,  \* table refresh_tokens
  nextId,          \* next generated row id (uuid_generate_v4)
  wallet,          \* tokens the server has handed to clients
  revoked,         \* refresh tokens whose rows a logout deleted
  last,            \* the last request to the backend and its outcome
  pcReg,           \* in-flight POST /api/auth/register requests
  alerts,          \* table alerts
  geofences,       \* table geofences
  lastA,           \* the last request to the alerts / locations routers
  rag_conversations, \* table rag_conversations
  ragLast,         \* the last request to the RAG service
  owner,           \* TouristSafetyAnchor: address public owner
  hashRecords,     \* TouristSafetyAnchor: HashRecord[] public hashRecords
  hashExists,      \* TouristSafetyAnchor: the hashes mapped to true
  authorizedSubmitters, \* TouristSafetyAnchor: the addresses mapped to true
  storeCount,      \* the number of storeHash calls that did not revert
  lastCall,        \* the last call to the contract and its outcome
  lastGeofence     \* the last createGeofence call and what was parsed back

contractVars ==
  <<owner, hashRecords, hashExists, authorizedSubmitters, storeCount, lastCall>>

\* what the backend's and the RAG service's handlers never touch
otherServices == <<contractVars, lastGeofence>>

vars == <<now, tourists, refresh_tokens, nextId, wallet, revoked, last,
          pcReg, alerts, geofences, lastA, rag_conversations, ragLast,
          otherServices>>

authVars == <<now, tourists, refresh_tokens, nextId, wallet, revoked, last>>

----------------------------------------------------------------------------
(* Bounds *)

MaxTime == 2
MaxRows == 2
MaxAlerts == 2
MaxConversations == 2
MaxRecords == 3
MaxRing == 3

\* the first id the database generates after the seed rows
FirstId == 10

(* Token lifetimes, scaled: '15m' and '7d' keep only their order *)
AccessTTL == 1
RefreshTTL == 2

----------------------------------------------------------------------------
(* JSON Web Tokens *)

JWT_SECRET == "JWT_SECRET"

NoToken ==
  [userId |-> 0, email |-> "none", role |-> "none",
   iat |-> -1, exp |-> -1, secret |-> "none"]

\* jwt.sign({ userId, email, role }, JWT_SECRET, { expiresIn: '15m' })
\* HS256 over the payload: equal payloads stamped in the same second give
\* the same token.
SignAccess(user, t) ==
  [userId |-> user.id, email |-> user.email, role |-> user.role,
   iat |-> t, exp |-> t + AccessTTL, secret |-> JWT_SECRET]

\* jwt.sign({ userId }, JWT_SECRET, { expiresIn: '7d' }): no email, no role
SignRefresh(user, t) ==
  [userId |-> user.id, email |-> "undefined", role |-> "undefined",
   iat |-> t, exp |-> t + RefreshTTL, secret |-> JWT_SECRET]

\* jwt.verify(token, JWT_SECRET): the signature and exp, nothing else
JwtVerify(token, t) ==
  /\ token.secret = JWT_SECRET
  /\ t < token.exp

\* a token an attacker signs with a key of their own
Forge(token) == [token EXCEPT !.secret = "attacker"]

\* what a client can put into a request
Presentable == wallet \cup {Forge(t) : t \in wallet}

----------------------------------------------------------------------------
(* Seed rows (seed.sql) *)

SeedHash == "bcrypt(password123)"

SeedTourists ==
  { [id |-> 1, email |-> "john", password_hash |-> SeedHash,
     role |-> "tourist", status |-> "active"],
    [id |-> 2, email |-> "maria", password_hash |-> SeedHash,
     role |-> "tourist", status |-> "active"],
    [id |-> 6, email |-> "officer", password_hash |-> SeedHash,
     role |-> "police", status |-> "active"],
    [id |-> 7, email |-> "admin", password_hash |-> SeedHash,
     role |-> "admin", status |-> "active"] }

\* e-mail addresses requests are tried with; "liu" and "raj" have no row
Emails == {"john", "liu", "raj"}
LoginEmails == {"john", "officer", "liu"}
AuthEmails == {"john", "liu"}
Passwords == {"password123", "letmein99"}
Roles == {"tourist", "police", "admin"}

\* bcrypt.hash / bcrypt.compare
BcryptHash(pw) == "bcrypt(" \o pw \o ")"
BcryptCompare(pw, hash) == BcryptHash(pw) = hash

----------------------------------------------------------------------------
(* Error handling *)

\* errorHandler: an ApiError keeps its status, anything else is a 500
ApiError(status, msg) == [status |-> status, msg |-> msg]
InternalError == [status |-> 500, msg |-> "Internal server error"]

NoUser == [userId |-> 0, email |-> "none", role |-> "none"]
NoHeader == [scheme |-> "none", token |-> NoToken]

Respond(route, status, msg, header, token, ran, user) ==
  [route |-> route, status |-> status, msg |-> msg, header |-> header,
   token |-> token, ran |-> ran, user |-> user, deleted |-> FALSE]

----------------------------------------------------------------------------
(* authMiddleware *)

AuthHeaders ==
  {NoHeader} \cup
  {[scheme |-> s, token |-> t] : s \in {"Basic", "Bearer"}, t \in Presentable}

\* req.user, or the error handed to next()
AuthMiddleware(header, t) ==
  IF header.scheme # "Bearer"
    THEN [ok |-> FALSE, err |-> ApiError(401, "Access token required"),
          user |-> NoUser]
  ELSE IF ~JwtVerify(header.token, t)
    THEN [ok |-> FALSE, err |-> ApiError(401, "Invalid or expired token"),
          user |-> NoUser]
  ELSE [ok |-> TRUE, err |-> ApiError(0, ""),
        user |-> [userId |-> header.token.userId,
                  email |-> header.token.email,
                  role |-> header.token.role]]

\* server.ts: the routers mounted behind authMiddleware
ProtectedMounts ==
  {"/api/tourists", "/api/locations", "/api/alerts", "/api/geofences",
   "/api/blockchain", "/api/places"}

\* app.use(mount, authMiddleware, router)
MountGuard(mount, header, t) ==
  IF mount \in ProtectedMounts THEN AuthMiddleware(header, t)
  ELSE [ok |-> TRUE, err |-> ApiError(0, ""), user |-> NoUser]

\* a request to a router mounted behind authMiddleware
ProtectedRequest(mount, header) ==
  /\ LET a == MountGuard(mount, header, now) IN
       last' = IF a.ok
                 THEN Respond(mount, 200, "", header, header.token, TRUE, a.user)
                 ELSE Respond(mount, a.err.status, a.err.msg, header,
                              header.token, FALSE, NoUser)
  /\ UNCHANGED <<now, tourists, refresh_tokens, nextId, wallet, revoked>>

----------------------------------------------------------------------------
(* routes/auth.ts *)

\* .single(): the one matching row, an error for none or several
Single(rows) == Cardinality(rows) = 1
TheRow(rows) == CHOOSE r \in rows : TRUE

\* the row a login or a register stores for its refresh token
RefreshRow(id, user, token, t) ==
  [id |-> id, user_id |-> user.id, token |-> token,
   expires_at |-> t + RefreshTTL]

\* POST /api/auth/login
Login(email, password, insertOk) ==
  LET found == {u \in tourists : u.email = email /\ u.status = "active"} IN
  /\ nextId < FirstId + MaxRows
  /\ IF ~Single(found)
       THEN /\ last' = Respond("/api/auth/login", 401,
                               "Invalid email or password", NoHeader, NoToken,
                               TRUE, NoUser)
            /\ UNCHANGED <<refresh_tokens, nextId, wallet>>
     ELSE LET user == TheRow(found) IN
       IF ~BcryptCompare(password, user.password_hash)
         THEN /\ last' = Respond("/api/auth/login", 401,
                                 "Invalid email or password", NoHeader,
                                 NoToken, TRUE, NoUser)
              /\ UNCHANGED <<refresh_tokens, nextId, wallet>>
       ELSE LET accessToken == SignAccess(user, now)
                refreshToken == SignRefresh(user, now) IN
            \* the result of the insert is not looked at
            /\ refresh_tokens' =
                 IF insertOk
                   THEN refresh_tokens \cup
                          {RefreshRow(nextId, user, refreshToken, now)}
                   ELSE refresh_tokens
            /\ nextId' = nextId + 1
            /\ wallet' = wallet \cup {accessToken, refreshToken}
            /\ last' = Respond("/api/auth/login", 200, "Login successful",
                               NoHeader, refreshToken, TRUE, NoUser)
  /\ UNCHANGED <<now, tourists, revoked>>

\* POST /api/auth/refresh; bodyOk is validateRequest(refreshTokenSchema)
Refresh(bodyOk, refreshToken, selectOk, deleteOk, userOk) ==
  LET route == "/api/auth/refresh"
      rows == {r \in refresh_tokens :
                 r.token = refreshToken /\ r.user_id = refreshToken.userId}
  IN
  /\ IF ~bodyOk
       THEN /\ last' = Respond(route, 400, "Validation error", NoHeader,
                               NoToken, FALSE, NoUser)
            /\ UNCHANGED <<refresh_tokens, wallet>>
     ELSE IF ~JwtVerify(refreshToken, now)
       THEN /\ last' = Respond(route, 401, "Invalid refresh token", NoHeader,
                               refreshToken, TRUE, NoUser)
            /\ UNCHANGED <<refresh_tokens, wallet>>
     ELSE IF ~selectOk \/ ~Single(rows)
       THEN /\ last' = Respond(route, 401, "Invalid refresh token", NoHeader,
                               refreshToken, TRUE, NoUser)
            /\ UNCHANGED <<refresh_tokens, wallet>>
     ELSE LET tokenRecord == TheRow(rows)
              users == {u \in tourists : u.id = tokenRecord.user_id} IN
       IF tokenRecord.expires_at < now
         THEN /\ refresh_tokens' =
                   IF deleteOk
                     THEN {r \in refresh_tokens : r.id # tokenRecord.id}
                     ELSE refresh_tokens
              /\ last' = [Respond(route, 401, "Refresh token expired",
                                  NoHeader, refreshToken, TRUE, NoUser)
                          EXCEPT !.deleted = deleteOk]
              /\ UNCHANGED wallet
       ELSE IF ~userOk \/ ~Single(users)
         \* user is null: user.id throws a TypeError
         THEN /\ last' = Respond(route, InternalError.status,
                                 InternalError.msg, NoHeader, refreshToken,
                                 TRUE, NoUser)
              /\ UNCHANGED <<refresh_tokens, wallet>>
       ELSE LET accessToken == SignAccess(TheRow(users), now) IN
            /\ wallet' = wallet \cup {accessToken}
            /\ last' = Respond(route, 200, "Token refreshed successfully",
                               NoHeader, refreshToken, TRUE, NoUser)
            /\ UNCHANGED refresh_tokens
  /\ UNCHANGED <<now, tourists, nextId, revoked>>

\* POST /api/auth/logout: mounted without authMiddleware, reads only the
\* x-refresh-token header
Logout(header, hasRefreshHeader, refreshToken, deleteOk) ==
  LET a == MountGuard("/api/auth", header, now)
      gone == {r \in refresh_tokens : r.token = refreshToken} IN
  /\ IF ~a.ok
       THEN /\ last' = Respond("/api/auth/logout", a.err.status, a.err.msg,
                               header, NoToken, FALSE, NoUser)
            /\ UNCHANGED <<refresh_tokens, revoked>>
     ELSE IF hasRefreshHeader
       THEN /\ refresh_tokens' =
                 IF deleteOk THEN refresh_tokens \ gone ELSE refresh_tokens
            /\ revoked' = IF deleteOk THEN revoked \cup {refreshToken}
                          ELSE revoked
            /\ last' = [Respond("/api/auth/logout", 200, "Logout successful",
                                header, refreshToken, TRUE, NoUser)
                        EXCEPT !.deleted = deleteOk /\ gone # {}]
     ELSE /\ last' = Respond("/api/auth/logout", 200, "Logout successful",
                             header, NoToken, TRUE, NoUser)
          /\ UNCHANGED <<refresh_tokens, revoked>>
  /\ UNCHANGED <<now, tourists, nextId, wallet>>

\* a second passes
Tick ==
  /\ now < MaxTime
  /\ now' = now + 1
  /\ UNCHANGED <<tourists, refresh_tokens, nextId, wallet, revoked, last>>

\* POST /api/auth/register runs as two database round trips; requests of
\* different clients interleave between them
Procs == {1, 2}

Idle ==
  [pc |-> "idle", email |-> "none", password |-> "none", role |-> "none",
   status |-> 0, msg |-> "", created |-> FALSE, tokens |-> FALSE,
   taken |-> FALSE]

RegisterBodies ==
  [email : Emails, password : Passwords, role : Roles]

\* validateRequest(registerSchema) and the "Check if user already exists"
\* select
RegisterCheck(p, bodyOk, body, selectOk) ==
  LET existing == {u \in tourists : u.email = body.email}
      existingUser == selectOk /\ Single(existing)
      req == [Idle EXCEPT !.email = body.email, !.password = body.password,
                          !.role = body.role]
  IN
  /\ pcReg[p].pc # "checked"
  /\ pcReg' = [pcReg EXCEPT ![p] =
       IF ~bodyOk
         THEN [Idle EXCEPT !.pc = "done", !.status = 400,
                           !.msg = "Validation error"]
       ELSE IF existingUser
         THEN [req EXCEPT !.pc = "done", !.status = 400,
                          !.msg = "User already exists with this email",
                          !.taken = TRUE]
       ELSE [req EXCEPT !.pc = "checked"]]
  /\ UNCHANGED <<now, tourists, refresh_tokens, nextId, wallet, revoked, last>>

\* tourists.email is UNIQUE: the insert of a second row with the email fails
UniqueEmail(rows, email) == \A u \in rows : u.email # email

\* bcrypt.hash, the insert into tourists, the tokens and the 201
RegisterInsert(p, insertOk, tokenInsertOk) ==
  LET req == pcReg[p]
      user == [id |-> nextId, email |-> req.email,
               password_hash |-> BcryptHash(req.password),
               role |-> req.role, status |-> "active"]
      accessToken == SignAccess(user, now)
      refreshToken == SignRefresh(user, now)
  IN
  /\ req.pc = "checked"
  /\ (insertOk /\ UniqueEmail(tourists, req.email)) =>
       nextId < FirstId + MaxRows
  /\ IF ~insertOk \/ ~UniqueEmail(tourists, req.email)
       THEN /\ pcReg' = [pcReg EXCEPT ![p] =
                 [req EXCEPT !.pc = "done", !.status = 500,
                             !.msg = "Failed to create user account",
                             !.taken = ~UniqueEmail(tourists, req.email)]]
            /\ UNCHANGED <<tourists, refresh_tokens, nextId, wallet>>
     ELSE /\ tourists' = tourists \cup {user}
          /\ refresh_tokens' =
               IF tokenInsertOk
                 THEN refresh_tokens \cup
                        {RefreshRow(nextId + 1, user, refreshToken, now)}
                 ELSE refresh_tokens
          /\ nextId' = nextId + 2
          /\ wallet' = wallet \cup {accessToken, refreshToken}
          /\ pcReg' = [pcReg EXCEPT ![p] =
               [req EXCEPT !.pc = "done", !.status = 201,
                           !.msg = "Registration successful",
                           !.created = TRUE, !.tokens = TRUE]]
  /\ UNCHANGED <<now, revoked, last>>

----------------------------------------------------------------------------
(* services/geofenceService.ts and the geofences table *)

\* named places stand for coordinates; a geofence's region is the set of
\* places ST_Contains puts inside its polygon
Points == {"red_fort", "military", "india_gate", "chandni", "connaught",
           "depot", "lotus"}

\* the rows of seed.sql, and two rows an admin added: a restricted zone
\* inside the Connaught Place safe zone and a deactivated restricted zone
SeedGeofences ==
  { [id |-> 1, name |-> "Red Fort Tourist Zone", type |-> "safe",
     description |-> "Safe area around Red Fort", is_active |-> TRUE,
     region |-> {"red_fort"}],
    [id |-> 2, name |-> "Restricted Military Zone", type |-> "restricted",
     description |-> "High security area", is_active |-> TRUE,
     region |-> {"military"}],
    [id |-> 3, name |-> "India Gate Emergency Assembly",
     type |-> "emergency", description |-> "Emergency assembly point",
     is_active |-> TRUE, region |-> {"india_gate"}],
    [id |-> 4, name |-> "Chandni Chowk Pickpocket Alert", type |-> "warning",
     description |-> "High pickpocket activity area", is_active |-> TRUE,
     region |-> {"chandni"}],
    [id |-> 5, name |-> "Connaught Place Safe Zone", type |-> "safe",
     description |-> "Well-monitored tourist area", is_active |-> TRUE,
     region |-> {"connaught"}],
    [id |-> 8, name |-> "Connaught Metro Works", type |-> "restricted",
     description |-> "null", is_active |-> TRUE,
     region |-> {"connaught"}],
    [id |-> 9, name |-> "Old Depot", type |-> "restricted",
     description |-> "null", is_active |-> FALSE,
     region |-> {"depot"}] }

\* the SQL function check_point_in_geofences
check_point_in_geofences(point) ==
  {g \in geofences : g.is_active /\ point \in g.region}

\* checkGeofences that reports restricted geofences only
checkGeofencesRestricted(point, rpc) ==
  IF rpc # "ok" THEN {}
  ELSE {[id |-> g.id, name |-> g.name, type |-> g.type,
         description |-> g.description] :
          g \in {r \in check_point_in_geofences(point) :
                   r.type = "restricted"}}

\* checkGeofences: rpc is "ok", "error" (the call returns an error) or
\* "throw" (the call rejects); each reported row is mapped to
\* {id, name, type, description}
checkGeofences(point, rpc) ==
  IF rpc # "ok" THEN {}
  ELSE {[id |-> g.id, name |-> g.name, type |-> g.type,
         description |-> g.description] :
          g \in check_point_in_geofences(point)}

----------------------------------------------------------------------------
(* routes/alerts.ts: POST /api/alerts/panic *)

Severities == {"low", "medium", "high", "critical"}
PanicTypes == {"panic", "medical", "security", "natural_disaster"}
Statuses == {"active", "investigating", "resolved", "false_alarm"}

AlertRow(id, userId, type, severity) ==
  [id |-> id, user_id |-> userId, type |-> type, severity |-> severity,
   status |-> "active", response_notes |-> "none", resolved_by |-> 0,
   blockchain_tx |-> "none", blockchain_network |-> "none"]

\* the id the database gives the next alert row
NewAlertId == Cardinality(alerts) + 1

\* PushStep with a retry after a failed push
PushStepRetry(severity, pushOk) ==
  IF severity = "critical" \/ severity = "high"
    THEN IF pushOk THEN <<"push">>
         ELSE <<"push", "log:push_failed", "push">>
    ELSE <<>>

\* lines 128-146: the push to the authorities, inside its own try/catch
PushStep(severity, pushOk) ==
  IF severity = "critical" \/ severity = "high"
    THEN IF pushOk THEN <<"push">> ELSE <<"push", "log:push_failed">>
    ELSE <<>>

\* anchorToBlockchain: the network of the anchor it returns ("mock" when
\* MOCK_BLOCKCHAIN is set or no RPC URL is configured), or "throw" after it
\* stored a fallback record
AnchorResults == {"mock", "throw"}

\* AnchorStep that anchors high alerts as well
AnchorStepHigh(severity, anchor, updateOk) ==
  IF severity = "critical" \/ severity = "high"
    THEN IF anchor = "throw" THEN <<"anchor", "log:anchor_failed">>
         ELSE IF updateOk THEN <<"anchor", "update_tx">>
         ELSE <<"anchor", "update_tx:error">>
    ELSE <<>>

\* lines 148-173: anchoring, inside its own try/catch
AnchorStep(severity, anchor, updateOk) ==
  IF severity = "critical"
    THEN IF anchor = "throw" THEN <<"anchor", "log:anchor_failed">>
         ELSE IF updateOk THEN <<"anchor", "update_tx">>
         ELSE <<"anchor", "update_tx:error">>
    ELSE <<>>

\* the alert row after the handler: the blockchain columns are written only
\* by the update that follows a successful anchoring
Anchored(row, severity, anchor, updateOk) ==
  IF severity = "critical" /\ anchor # "throw" /\ updateOk
    THEN [row EXCEPT !.blockchain_tx = "0xhash", !.blockchain_network = anchor]
    ELSE row

PanicEnvs ==
  [rpc : {"ok", "error", "throw"}, insertOk : BOOLEAN, locationOk : BOOLEAN,
   pushOk : BOOLEAN, anchor : AnchorResults, updateOk : BOOLEAN]

\* PanicEvents with the broadcast moved in front of the insert
PanicEventsEmitFirst(body, env) ==
  <<"emit:new_alert", "insert_alert",
    IF env.locationOk THEN "insert_location" ELSE "insert_location:error">>
  \o PushStep(body.severity, env.pushOk)
  \o AnchorStep(body.severity, env.anchor, env.updateOk)
  \o <<"res:201">>

\* lines 100-194 in order: what the handler does once the alert row exists
PanicEvents(body, env) ==
  <<"insert_alert",
    IF env.locationOk THEN "insert_location" ELSE "insert_location:error",
    "emit:new_alert">>
  \o PushStep(body.severity, env.pushOk)
  \o AnchorStep(body.severity, env.anchor, env.updateOk)
  \o <<"res:201">>

\* PanicHandler with the broadcast moved behind the push and the anchoring
PanicHandlerBroadcastLast(table, caller, bodyOk, body, env) ==
  LET violations == checkGeofences(body.point, env.rpc)
      row == AlertRow(Cardinality(table) + 1, caller.userId, body.type,
                      body.severity)
  IN
  IF ~bodyOk
    THEN [alerts |-> table, events |-> <<>>, status |-> 400,
          msg |-> "Validation error", alertId |-> 0, violations |-> {}]
  ELSE IF ~env.insertOk
    THEN [alerts |-> table,
          events |-> <<"select_user", "checkGeofences", "insert_alert:error">>,
          status |-> 500, msg |-> "Failed to create alert", alertId |-> 0,
          violations |-> violations]
  ELSE [alerts |-> table \cup
                     {Anchored(row, body.severity, env.anchor, env.updateOk)},
        events |-> <<"select_user", "checkGeofences", "insert_alert",
                     IF env.locationOk THEN "insert_location"
                     ELSE "insert_location:error">>
                   \o PushStep(body.severity, env.pushOk)
                   \o AnchorStep(body.severity, env.anchor, env.updateOk)
                   \o <<"emit:new_alert", "res:201">>,
        status |-> 201,
        msg |-> "Alert created successfully. Help is on the way.",
        alertId |-> row.id, violations |-> violations]

\* the handler: what it leaves in the alerts table, the side effects in the
\* order it performs them, and its answer
PanicHandler(table, caller, bodyOk, body, env) ==
  LET violations == checkGeofences(body.point, env.rpc)
      row == AlertRow(Cardinality(table) + 1, caller.userId, body.type,
                      body.severity)
  IN
  IF ~bodyOk
    THEN [alerts |-> table, events |-> <<>>, status |-> 400,
          msg |-> "Validation error", alertId |-> 0, violations |-> {}]
  ELSE IF ~env.insertOk
    THEN [alerts |-> table,
          events |-> <<"select_user", "checkGeofences", "insert_alert:error">>,
          status |-> 500, msg |-> "Failed to create alert", alertId |-> 0,
          violations |-> violations]
  ELSE [alerts |-> table \cup
                     {Anchored(row, body.severity, env.anchor, env.updateOk)},
        events |-> <<"select_user", "checkGeofences">>
                   \o PanicEvents(body, env),
        status |-> 201,
        msg |-> "Alert created successfully. Help is on the way.",
        alertId |-> row.id, violations |-> violations]

NoBody == [point |-> "none", type |-> "none", severity |-> "none",
           status |-> "none", response_notes |-> "none"]

Answer(route, caller, id, bodyOk, body, env, out, result) ==
  [route |-> route, caller |-> caller, id |-> id, bodyOk |-> bodyOk,
   body |-> body, env |-> env, status |-> out.status, msg |-> out.msg, events |-> out.events,
   alertId |-> out.alertId, violations |-> out.violations,
   result |-> result, before |-> alerts]

Panic(caller, bodyOk, body, env) ==
  /\ Cardinality(alerts) < MaxAlerts
  /\ LET out == PanicHandler(alerts, caller, bodyOk, body, env) IN
       /\ alerts' = out.alerts
       /\ lastA' = Answer("POST /api/alerts/panic", caller, 0, bodyOk, body,
                          env, out, {})
  /\ UNCHANGED <<geofences, now, tourists, refresh_tokens, nextId, wallet,
                 revoked, last, pcReg, rag_conversations, ragLast,
                 otherServices>>

----------------------------------------------------------------------------
(* routes/location.ts: POST /api/locations/update *)

LocationEnvs ==
  [locationOk : BOOLEAN, rpc : {"ok", "error", "throw"},
   anomaly : {"none", "anomaly", "throw"}, insertOk : BOOLEAN]

\* RestrictedViolations without the filter on the type
AnyViolations(violations) == violations

\* lines 79-116: the automatic alert for a restricted area
RestrictedViolations(violations) ==
  {v \in violations : v.type = "restricted"}

LocationHandler(table, caller, bodyOk, point, env) ==
  LET violations == checkGeofences(point, env.rpc)
      restricted == RestrictedViolations(violations)
      row == AlertRow(Cardinality(table) + 1, caller.userId,
                      "geofence_violation", "medium")
      inserted == restricted # {} /\ env.insertOk
  IN
  IF ~bodyOk
    THEN [alerts |-> table, events |-> <<>>, status |-> 400,
          msg |-> "Validation error", alertId |-> 0, violations |-> {}]
  ELSE IF ~env.locationOk
    THEN [alerts |-> table, events |-> <<"insert_location:error">>,
          status |-> 500, msg |-> "Failed to save location", alertId |-> 0,
          violations |-> {}]
  ELSE [alerts |-> IF inserted THEN table \cup {row} ELSE table,
        events |-> <<"insert_location", "checkGeofences",
                     IF env.anomaly = "throw" THEN "detectAnomalies:throw"
                     ELSE "detectAnomalies">>
                   \o (IF restricted = {} THEN <<>>
                       ELSE IF env.insertOk
                         THEN <<"insert_alert", "emit:geofence_violation">>
                       ELSE <<"insert_alert:error">>)
                   \o (IF env.anomaly = "anomaly"
                         THEN <<"emit:anomaly_detected">> ELSE <<>>)
                   \o <<"emit:location_update", "res:200">>,
        status |-> 200, msg |-> "Location updated successfully",
        alertId |-> IF inserted THEN row.id ELSE 0,
        violations |-> violations]

LocationUpdate(caller, bodyOk, point, env) ==
  /\ Cardinality(alerts) < MaxAlerts
  /\ LET out == LocationHandler(alerts, caller, bodyOk, point, env) IN
       /\ alerts' = out.alerts
       /\ lastA' = Answer("POST /api/locations/update", caller, 0, bodyOk,
                          [NoBody EXCEPT !.point = point], env, out, {})
  /\ UNCHANGED <<geofences, now, tourists, refresh_tokens, nextId, wallet,
                 revoked, last, pcReg, rag_conversations, ragLast,
                 otherServices>>

----------------------------------------------------------------------------
(* routes/alerts.ts: GET /api/alerts, GET /api/alerts/:id, PUT /api/alerts/:id *)

\* req.user as authMiddleware sets it: from the access token of each seeded
\* user, and from a refresh token, which carries neither email nor role
BearerOf(token) == [scheme |-> "Bearer", token |-> token]

Callers ==
  {AuthMiddleware(BearerOf(SignAccess(u, 0)), 0).user : u \in SeedTourists}
  \cup {AuthMiddleware(BearerOf(SignRefresh(u, 0)), 0).user :
          u \in {v \in SeedTourists : v.id = 1}}

\* ListQuery without the role filter
ListQueryNoRole(table, caller, status) ==
  {a \in table : status # "any" => a.status = status}

\* the query GET /api/alerts builds: the role filter, then the optional
\* status filter ("any" when the query string has none)
ListQuery(table, caller, status) ==
  {a \in table :
     /\ (caller.role = "tourist" => a.user_id = caller.userId)
     /\ (status # "any" => a.status = status)}

\* .order('created_at', desc).range(offset, offset + limit - 1): rows are
\* created in id order
Range(rows, offset, limit) ==
  {a \in rows :
     LET rank == Cardinality({b \in rows : b.id > a.id}) IN
       rank >= offset /\ rank <= offset + limit - 1}

DefaultLimit == 50

ListAlerts(caller, status, offset, selectOk) ==
  /\ LET rows == Range(ListQuery(alerts, caller, status), offset,
                       DefaultLimit)
         out == IF selectOk
                  THEN [status |-> 200, msg |-> "", events |-> <<"res:200">>,
                        alertId |-> 0, violations |-> {}]
                  ELSE [status |-> 500, msg |-> "Failed to fetch alerts",
                        events |-> <<>>, alertId |-> 0, violations |-> {}]
     IN lastA' = Answer("GET /api/alerts", caller, offset, TRUE,
                        [NoBody EXCEPT !.status = status],
                        [selectOk |-> selectOk], out,
                        IF selectOk THEN rows ELSE {})
  /\ UNCHANGED <<alerts, geofences, now, tourists, refresh_tokens, nextId,
                 wallet, revoked, last, pcReg, rag_conversations, ragLast,
                 otherServices>>

\* the query GET /api/alerts/:id builds
GetQuery(table, caller, id) ==
  {a \in table :
     /\ a.id = id
     /\ (caller.role = "tourist" => a.user_id = caller.userId)}

GetAlert(caller, id, selectOk) ==
  /\ LET rows == GetQuery(alerts, caller, id)
         found == selectOk /\ Single(rows)
         out == IF found
                  THEN [status |-> 200, msg |-> "", events |-> <<"res:200">>,
                        alertId |-> 0, violations |-> {}]
                  ELSE [status |-> 404, msg |-> "Alert not found",
                        events |-> <<>>, alertId |-> 0, violations |-> {}]
     IN lastA' = Answer("GET /api/alerts/:id", caller, id, TRUE, NoBody,
                        [selectOk |-> selectOk], out,
                        IF found THEN rows ELSE {})
  /\ UNCHANGED <<alerts, geofences, now, tourists, refresh_tokens, nextId,
                 wallet, revoked, last, pcReg, rag_conversations, ragLast,
                 otherServices>>

\* MayUpdate that only turns tourists away
MayUpdateNonTourist(caller) == caller.role # "tourist"

\* "Only police and admin can update alerts"
MayUpdate(caller) == caller.role \in {"police", "admin"}

\* updateData
UpdateRow(row, caller, body) ==
  [row EXCEPT
     !.status = body.status,
     !.response_notes = IF body.response_notes # "none"
                          THEN body.response_notes ELSE @,
     !.resolved_by = IF body.status = "resolved" THEN caller.userId ELSE @]

PutEnvs == [updateOk : BOOLEAN, pushOk : BOOLEAN]

PutHandler(table, caller, id, bodyOk, body, env) ==
  LET rows == {a \in table : a.id = id}
      none == [alertId |-> 0, violations |-> {}]
  IN
  IF ~bodyOk
    THEN [alerts |-> table, events |-> <<>>, status |-> 400,
          msg |-> "Validation error"] @@ none
  ELSE IF ~MayUpdate(caller)
    THEN [alerts |-> table, events |-> <<>>, status |-> 403,
          msg |-> "Insufficient permissions"] @@ none
  ELSE IF ~env.updateOk \/ ~Single(rows)
    THEN [alerts |-> table, events |-> <<"update:error">>, status |-> 404,
          msg |-> "Alert not found or update failed"] @@ none
  ELSE [alerts |-> (table \ rows) \cup
                     {UpdateRow(a, caller, body) : a \in rows},
        events |-> <<"update", "emit:alert_updated">>
                   \o (IF body.status = "resolved"
                         THEN IF env.pushOk THEN <<"push">>
                              ELSE <<"push", "log:push_failed">>
                         ELSE <<>>)
                   \o <<"res:200">>,
        status |-> 200, msg |-> "Alert updated successfully"] @@ none

PutAlert(caller, id, bodyOk, body, env) ==
  /\ LET out == PutHandler(alerts, caller, id, bodyOk, body, env) IN
       /\ alerts' = out.alerts
       /\ lastA' = Answer("PUT /api/alerts/:id", caller, id, bodyOk, body,
                          env, out, {})
  /\ UNCHANGED <<geofences, now, tourists, refresh_tokens, nextId, wallet,
                 revoked, last, pcReg, rag_conversations, ragLast,
                 otherServices>>

----------------------------------------------------------------------------
(* services/rag-service *)

\* the API key a request to the RAG service carries
ApiKeys == {"none", "valid", "invalid"}

\* middleware/auth.ts: "just pass through for now"
validateApiKey(apiKey) == TRUE

\* server.ts: every router is mounted behind validateApiKey
RagMounts == {"/api/embeddings", "/api/places", "/api/incidents", "/api/chat"}

ChatPaths == {"/", "/place-info", "/incident-summary", "/conversations/:id"}

NoRagAnswer ==
  [mount |-> "none", path |-> "none", apiKey |-> "none", ran |-> FALSE,
   status |-> 0, stored |-> FALSE]

\* storeConversation: the insert's outcome is not looked at
StoreConversation(table, path, conversationId, storeOk) ==
  IF storeOk
    THEN table \cup {[id |-> Cardinality(table) + 1, path |-> path,
                      conversation_id |-> conversationId]}
    ELSE table

\* a request to the RAG service; fieldsOk says whether the body carries the
\* fields the handler itself asks for
RagRequest(mount, path, apiKey, fieldsOk, conversationId, storeOk) ==
  /\ storeOk => Cardinality(rag_conversations) < MaxConversations
  /\ mount # "/api/chat" => path = "/"
  /\ IF ~validateApiKey(apiKey)
       THEN /\ ragLast' = [mount |-> mount, path |-> path, apiKey |-> apiKey,
                           ran |-> FALSE, status |-> 401, stored |-> FALSE]
            /\ UNCHANGED rag_conversations
     ELSE IF mount = "/api/chat"
               /\ path \in {"/place-info", "/incident-summary"} /\ ~fieldsOk
       THEN /\ ragLast' = [mount |-> mount, path |-> path, apiKey |-> apiKey,
                           ran |-> TRUE, status |-> 400, stored |-> FALSE]
            /\ UNCHANGED rag_conversations
     ELSE IF mount = "/api/chat" /\ path # "/conversations/:id"
       \* generateChatResponse answers with a fallback when a step fails
       THEN /\ rag_conversations' =
                 StoreConversation(rag_conversations, path, conversationId,
                                   storeOk)
            /\ ragLast' = [mount |-> mount, path |-> path, apiKey |-> apiKey,
                           ran |-> TRUE, status |-> 200, stored |-> storeOk]
     ELSE /\ ragLast' = [mount |-> mount, path |-> path, apiKey |-> apiKey,
                         ran |-> TRUE, status |-> 200, stored |-> FALSE]
          /\ UNCHANGED rag_conversations
  /\ UNCHANGED <<now, tourists, refresh_tokens, nextId, wallet, revoked, last,
                 pcReg, alerts, geofences, lastA, otherServices>>

----------------------------------------------------------------------------
(* scripts/blockchain/deploy-contract.js: contract TouristSafetyAnchor *)

\* msg.sender: the deployer and another account
Addresses == {"deployer", "alice"}
Hashes == 1..MaxRecords
RecordTypes == {"", "alert"}

\* a reverted call leaves the storage as it was
Reverted(fn, sender, reason) ==
  [fn |-> fn, sender |-> sender, ok |-> FALSE, ret |-> reason,
   before |-> hashRecords]
Returned(fn, sender, ret) ==
  [fn |-> fn, sender |-> sender, ok |-> TRUE, ret |-> ret,
   before |-> hashRecords]

\* modifier onlyOwner
onlyOwner(sender) == sender = owner

\* modifier onlyAuthorized
onlyAuthorized(sender) == sender = owner \/ sender \in authorizedSubmitters

\* storeHash that returns the length after the push
storeHashReturnsLength(sender, hash, recordType) ==
  /\ IF ~onlyAuthorized(sender)
       THEN /\ lastCall' = Reverted("storeHash", sender,
                                    "Not authorized to submit hashes")
            /\ UNCHANGED <<hashRecords, hashExists, storeCount>>
     ELSE IF hash \in hashExists
       THEN /\ lastCall' = Reverted("storeHash", sender, "Hash already exists")
            /\ UNCHANGED <<hashRecords, hashExists, storeCount>>
     ELSE IF recordType = ""
       THEN /\ lastCall' = Reverted("storeHash", sender, "Record type required")
            /\ UNCHANGED <<hashRecords, hashExists, storeCount>>
     ELSE /\ Len(hashRecords) < MaxRecords
          /\ hashRecords' = Append(hashRecords,
               [hash |-> hash, timestamp |-> now, submitter |-> sender,
                recordType |-> recordType])
          /\ hashExists' = hashExists \cup {hash}
          /\ storeCount' = storeCount + 1
          /\ lastCall' = Returned("storeHash", sender, Len(hashRecords) + 1)
  /\ UNCHANGED <<owner, authorizedSubmitters>>

\* function storeHash(bytes32 hash, string memory recordType); the array
\* index recordId counts from 0
storeHash(sender, hash, recordType) ==
  /\ IF ~onlyAuthorized(sender)
       THEN /\ lastCall' = Reverted("storeHash", sender,
                                    "Not authorized to submit hashes")
            /\ UNCHANGED <<hashRecords, hashExists, storeCount>>
     ELSE IF hash \in hashExists
       THEN /\ lastCall' = Reverted("storeHash", sender, "Hash already exists")
            /\ UNCHANGED <<hashRecords, hashExists, storeCount>>
     ELSE IF recordType = ""
       THEN /\ lastCall' = Reverted("storeHash", sender, "Record type required")
            /\ UNCHANGED <<hashRecords, hashExists, storeCount>>
     ELSE LET recordId == Len(hashRecords) IN
          /\ Len(hashRecords) < MaxRecords
          /\ hashRecords' = Append(hashRecords,
               [hash |-> hash, timestamp |-> now, submitter |-> sender,
                recordType |-> recordType])
          /\ hashExists' = hashExists \cup {hash}
          /\ storeCount' = storeCount + 1
          /\ lastCall' = Returned("storeHash", sender, recordId)
  /\ UNCHANGED <<owner, authorizedSubmitters>>

\* function getHashRecord(uint256 recordId)
getHashRecord(sender, recordId) ==
  /\ lastCall' = IF recordId < Len(hashRecords)
                   THEN Returned("getHashRecord", sender,
                                 hashRecords[recordId + 1])
                   ELSE Reverted("getHashRecord", sender,
                                 "Record does not exist")
  /\ UNCHANGED <<owner, hashRecords, hashExists, authorizedSubmitters,
                 storeCount>>

\* function getHashCount()
getHashCount(sender) ==
  /\ lastCall' = Returned("getHashCount", sender, Len(hashRecords))
  /\ UNCHANGED <<owner, hashRecords, hashExists, authorizedSubmitters,
                 storeCount>>

\* function verifyHash(bytes32 hash)
verifyHash(sender, hash) ==
  /\ lastCall' = Returned("verifyHash", sender, hash \in hashExists)
  /\ UNCHANGED <<owner, hashRecords, hashExists, authorizedSubmitters,
                 storeCount>>

\* function authorizeSubmitter(address submitter)
authorizeSubmitter(sender, submitter) ==
  /\ IF ~onlyOwner(sender)
       THEN /\ lastCall' = Reverted("authorizeSubmitter", sender,
                                    "Only owner can perform this action")
            /\ UNCHANGED authorizedSubmitters
     ELSE /\ authorizedSubmitters' = authorizedSubmitters \cup {submitter}
          /\ lastCall' = Returned("authorizeSubmitter", sender, submitter)
  /\ UNCHANGED <<owner, hashRecords, hashExists, storeCount>>

\* function revokeSubmitter(address submitter)
revokeSubmitter(sender, submitter) ==
  /\ IF ~onlyOwner(sender)
       THEN /\ lastCall' = Reverted("revokeSubmitter", sender,
                                    "Only owner can perform this action")
            /\ UNCHANGED authorizedSubmitters
     ELSE /\ authorizedSubmitters' = authorizedSubmitters \ {submitter}
          /\ lastCall' = Returned("revokeSubmitter", sender, submitter)
  /\ UNCHANGED <<owner, hashRecords, hashExists, storeCount>>

\* function isAuthorized(address submitter)
isAuthorized(sender, submitter) ==
  /\ lastCall' = Returned("isAuthorized", sender,
                          submitter = owner
                            \/ submitter \in authorizedSubmitters)
  /\ UNCHANGED <<owner, hashRecords, hashExists, authorizedSubmitters,
                 storeCount>>

\* the state the constructor leaves, deployed by the script's wallet
NoCall ==
  [fn |-> "constructor", sender |-> "deployer", ok |-> TRUE, ret |-> 0,
   before |-> <<>>]

----------------------------------------------------------------------------
(* services/geofenceService.ts: createGeofence and parsePolygonCoordinates *)

\* a text is the sequence of its characters
Digits == <<"0", "1", "2", "3", "4", "5", "6", "7", "8", "9">>
NaN == "NaN"

\* `${n}` for an integer
RECURSIVE NumberToString(_)
NumberToString(n) ==
  IF n < 0 THEN <<"-">> \o NumberToString(-n)
  ELSE IF n < 10 THEN <<Digits[n + 1]>>
  ELSE NumberToString(n \div 10) \o <<Digits[(n % 10) + 1]>>

DigitValue(c) == CHOOSE d \in 0..9 : Digits[d + 1] = c
IsDigit(c) == \E d \in 0..9 : Digits[d + 1] = c

RECURSIVE Unsigned(_)
Unsigned(t) ==
  IF Len(t) = 1 THEN DigitValue(t[1])
  ELSE 10 * Unsigned(SubSeq(t, 1, Len(t) - 1)) + DigitValue(t[Len(t)])

\* Number(text): the empty text is 0, anything that is not a number is NaN
Number(t) ==
  IF t = <<>> THEN 0
  ELSE IF t[1] = "-" /\ Len(t) > 1
            /\ \A i \in 2..Len(t) : IsDigit(t[i])
    THEN 0 - Unsigned(Tail(t))
  ELSE IF \A i \in 1..Len(t) : IsDigit(t[i]) THEN Unsigned(t)
  ELSE NaN

\* the position of the first occurrence of pat in t, 0 when there is none
IndexOf(t, pat) ==
  LET hits == {i \in 1..(Len(t) - Len(pat) + 1) :
                 SubSeq(t, i, i + Len(pat) - 1) = pat}
  IN IF hits = {} THEN 0 ELSE CHOOSE i \in hits : \A j \in hits : i <= j

\* String.prototype.replace with a string pattern: the first occurrence only
Replace(t, pat, by) ==
  LET i == IndexOf(t, pat) IN
  IF i = 0 THEN t
  ELSE SubSeq(t, 1, i - 1) \o by \o SubSeq(t, i + Len(pat), Len(t))

\* String.prototype.split with a string separator
RECURSIVE Split(_, _)
Split(t, sep) ==
  LET i == IndexOf(t, sep) IN
  IF i = 0 THEN <<t>>
  ELSE <<SubSeq(t, 1, i - 1)>> \o Split(SubSeq(t, i + Len(sep), Len(t)), sep)

\* String.prototype.trim
RECURSIVE Trim(_)
Trim(t) ==
  IF t = <<>> THEN t
  ELSE IF t[1] = " " THEN Trim(Tail(t))
  ELSE IF t[Len(t)] = " " THEN Trim(SubSeq(t, 1, Len(t) - 1))
  ELSE t

\* Array.prototype.join
RECURSIVE Join(_, _)
Join(parts, sep) ==
  IF parts = <<>> THEN <<>>
  ELSE IF Len(parts) = 1 THEN parts[1]
  ELSE parts[1] \o sep \o Join(Tail(parts), sep)

\* a coordinate pair is <<lat, lng>>
Lat(c) == c[1]
Lng(c) == c[2]

\* lines 309-313: the WKT text; coordinates is not empty
PolygonWKT(coordinates) ==
  LET polygonCoords ==
        Join([i \in 1..Len(coordinates) |->
                NumberToString(Lng(coordinates[i])) \o <<" ">>
                  \o NumberToString(Lat(coordinates[i]))],
             <<",", " ">>)
  IN <<"P", "O", "L", "Y", "G", "O", "N", "(", "(">>
       \o polygonCoords \o <<",", " ">>
       \o NumberToString(coordinates[1][2]) \o <<" ">>
       \o NumberToString(coordinates[1][1])
       \o <<")", ")">>

\* element i of an array, undefined past its end; Number(undefined) is NaN
At(arr, i) == IF i <= Len(arr) THEN arr[i] ELSE NaN

\* parsePolygonCoordinates that keeps the pairs as 'lng lat'
parsePolygonCoordinatesNoSwap(geometry) ==
  LET parts == Split(Replace(Replace(geometry,
                   <<"P", "O", "L", "Y", "G", "O", "N", "(", "(">>, <<>>),
                   <<")", ")">>, <<>>), <<",", " ">>)
      coords == [i \in 1..Len(parts) |->
                   LET nums == [k \in 1..Len(Split(Trim(parts[i]), <<" ">>)) |->
                                  Number(Split(Trim(parts[i]), <<" ">>)[k])]
                   IN <<At(nums, 1), At(nums, 2)>>]
  IN SubSeq(coords, 1, Len(coords) - 1)

\* parsePolygonCoordinates: strip the wrapper, split on ', ', read each
\* 'lng lat' as [lat, lng], drop the last pair
parsePolygonCoordinates(geometry) ==
  LET parts == Split(Replace(Replace(geometry,
                   <<"P", "O", "L", "Y", "G", "O", "N", "(", "(">>, <<>>),
                   <<")", ")">>, <<>>), <<",", " ">>)
      coords == [i \in 1..Len(parts) |->
                   LET nums == [k \in 1..Len(Split(Trim(parts[i]), <<" ">>)) |->
                                  Number(Split(Trim(parts[i]), <<" ">>)[k])]
                       lng == At(nums, 1)
                       lat == At(nums, 2)
                   IN <<lat, lng>>]
  IN SubSeq(coords, 1, Len(coords) - 1)

\* the latitudes and longitudes the requests use
Lats == {-1, 28}
Lngs == {0, 77}
Rings ==
  UNION {[1..n -> Lats \X Lngs] : n \in 0..MaxRing}

NoGeofence ==
  [coordinates |-> <<>>, geometry |-> <<>>, id |-> "none", parsed |-> <<>>,
   isParsed |-> FALSE]

\* createGeofence: coordinates[0] of an empty list throws inside the try and
\* null is returned; so it is when the insert reports an error
createGeofence(coordinates, insertOk) ==
  /\ lastGeofence' =
       IF coordinates = <<>>
         THEN [NoGeofence EXCEPT !.id = "null"]
       ELSE [coordinates |-> coordinates,
             geometry |-> PolygonWKT(coordinates),
             id |-> IF insertOk THEN "id" ELSE "null",
             parsed |-> <<>>, isParsed |-> FALSE]
  /\ UNCHANGED contractVars

\* parsePolygonCoordinates applied to the text createGeofence built
ParseGeometry ==
  /\ lastGeofence.geometry # <<>>
  /\ ~lastGeofence.isParsed
  /\ lastGeofence' =
       [lastGeofence EXCEPT
          !.parsed = parsePolygonCoordinates(lastGeofence.geometry),
          !.isParsed = TRUE]
  /\ UNCHANGED contractVars

----------------------------------------------------------------------------
(* The specifications *)

NoAnswer ==
  [route |-> "none", caller |-> NoUser, id |-> 0, bodyOk |-> TRUE,
   body |-> NoBody, env |-> [selectOk |-> TRUE], status |-> 0, msg |-> "", events |-> <<>>, alertId |-> 0,
   violations |-> {}, result |-> {}, before |-> {}]

Init ==
  /\ now = 0
  /\ tourists = SeedTourists
  /\ refresh_tokens = {}
  /\ nextId = FirstId
  /\ wallet = {}
  /\ revoked = {}
  /\ last = Respond("none", 0, "", NoHeader, NoToken, FALSE, NoUser)
  /\ pcReg = [p \in Procs |-> Idle]
  /\ alerts = {}
  /\ geofences = SeedGeofences
  /\ lastA = NoAnswer
  /\ rag_conversations = {}
  /\ ragLast = NoRagAnswer
  /\ owner = "deployer"
  /\ hashRecords = <<>>
  /\ hashExists = {}
  /\ authorizedSubmitters = {"deployer"}
  /\ storeCount = 0
  /\ lastCall = NoCall
  /\ lastGeofence = NoGeofence

otherThanAuth ==
  <<pcReg, alerts, geofences, lastA, rag_conversations, ragLast,
                 otherServices>>

\* the Authorization headers a logout request is tried with
LogoutHeaders ==
  {NoHeader} \cup {[scheme |-> "Bearer", token |-> t] : t \in wallet}

NextAuth ==
  \/ \E email \in AuthEmails, password \in Passwords, insertOk \in BOOLEAN :
       Login(email, password, insertOk) /\ UNCHANGED otherThanAuth
  \/ \E bodyOk, selectOk, deleteOk, userOk \in BOOLEAN :
       \E refreshToken \in Presentable :
         Refresh(bodyOk, refreshToken, selectOk, deleteOk, userOk)
         /\ UNCHANGED otherThanAuth
  \/ \E header \in LogoutHeaders, hasRefreshHeader, deleteOk \in BOOLEAN :
       \E refreshToken \in wallet :
         Logout(header, hasRefreshHeader, refreshToken, deleteOk)
         /\ UNCHANGED otherThanAuth
  \/ Tick /\ UNCHANGED otherThanAuth

SpecAuth == Init /\ [][NextAuth]_vars

NextMount ==
  \/ \E email \in LoginEmails, password \in Passwords, insertOk \in BOOLEAN :
       Login(email, password, insertOk) /\ UNCHANGED otherThanAuth
  \/ \E mount \in ProtectedMounts, header \in AuthHeaders :
       ProtectedRequest(mount, header) /\ UNCHANGED otherThanAuth
  \/ Tick /\ UNCHANGED otherThanAuth

SpecMount == Init /\ [][NextMount]_vars

NextRegister ==
  \/ \E p \in Procs, bodyOk, selectOk \in BOOLEAN, body \in RegisterBodies :
       RegisterCheck(p, bodyOk, body, selectOk)
       /\ UNCHANGED <<alerts, geofences, lastA, rag_conversations, ragLast,
                 otherServices>>
  \/ \E p \in Procs, insertOk, tokenInsertOk \in BOOLEAN :
       RegisterInsert(p, insertOk, tokenInsertOk)
       /\ UNCHANGED <<alerts, geofences, lastA, rag_conversations, ragLast,
                 otherServices>>

SpecRegister == Init /\ [][NextRegister]_vars

\* the bodies that pass panicAlertSchema; the requests use one restricted
\* place and one place outside every geofence
PanicBodies ==
  {[NoBody EXCEPT !.point = p, !.type = "panic", !.severity = sv] :
     p \in {"military", "lotus"}, sv \in Severities}

PanicCallers == {c \in Callers : c.userId = 1 /\ c.role = "tourist"}
LocationCallers == {c \in Callers : c.role \in {"tourist", "police"}}

AllOk ==
  [rpc |-> "ok", insertOk |-> TRUE, locationOk |-> TRUE, pushOk |-> TRUE,
   anchor |-> "mock", updateOk |-> TRUE]

\* an outcome the handler never consults is left at its default
PanicRelevant(bodyOk, body, env) ==
  /\ ~bodyOk => (env = AllOk /\ body = NoBody)
  /\ bodyOk => body \in PanicBodies
  /\ ~env.insertOk => (env.locationOk /\ env.pushOk /\ env.anchor = "mock"
                       /\ env.updateOk)
  /\ body.severity \notin {"high", "critical"} => env.pushOk
  /\ body.severity # "critical" => (env.anchor = "mock" /\ env.updateOk)
  /\ env.anchor = "throw" => env.updateOk

LocationAllOk ==
  [locationOk |-> TRUE, rpc |-> "ok", anomaly |-> "none", insertOk |-> TRUE]

LocationRelevant(bodyOk, point, env) ==
  /\ ~bodyOk => (env = LocationAllOk /\ point = "lotus")
  /\ ~env.locationOk => (env.rpc = "ok" /\ env.anomaly = "none"
                         /\ env.insertOk)
  /\ RestrictedViolations(checkGeofences(point, env.rpc)) = {} => env.insertOk

NextPanic ==
  \/ \E caller \in PanicCallers, bodyOk \in BOOLEAN,
        body \in PanicBodies \cup {NoBody}, env \in PanicEnvs :
       /\ PanicRelevant(bodyOk, body, env)
       /\ Panic(caller, bodyOk, body, env)
  \/ \E caller \in LocationCallers, bodyOk \in BOOLEAN, point \in Points,
        env \in LocationEnvs :
       /\ LocationRelevant(bodyOk, point, env)
       /\ LocationUpdate(caller, bodyOk, point, env)

SpecPanic == Init /\ [][NextPanic]_vars

PutBodies ==
  {[NoBody EXCEPT !.status = st] : st \in {"investigating", "resolved"}}

PutAllOk == [updateOk |-> TRUE, pushOk |-> TRUE]

PutRelevant(caller, bodyOk, body, env) ==
  /\ ~bodyOk => (env = PutAllOk /\ body = NoBody)
  /\ bodyOk => body \in PutBodies
  /\ ~MayUpdate(caller) => env = PutAllOk
  /\ ~env.updateOk => env.pushOk
  /\ body.status # "resolved" => env.pushOk

AlertIds == 1..(MaxAlerts + 1)

PutCallers == {c \in Callers : c.role # "admin"}

NextAccess ==
  \/ \E caller \in {c \in Callers : c.role = "tourist"},
        body \in {b \in PanicBodies : b.point = "lotus"
                                       /\ b.severity = "high"} :
       Panic(caller, TRUE, body, AllOk)
  \/ \E caller \in Callers, status \in {"any", "active", "resolved"},
        offset \in {0, 1}, selectOk \in BOOLEAN :
       ListAlerts(caller, status, offset, selectOk)
  \/ \E caller \in Callers, id \in AlertIds, selectOk \in BOOLEAN :
       GetAlert(caller, id, selectOk)
  \/ \E caller \in PutCallers, id \in AlertIds, bodyOk \in BOOLEAN,
        body \in PutBodies \cup {NoBody}, env \in PutEnvs :
       /\ PutRelevant(caller, bodyOk, body, env)
       /\ PutAlert(caller, id, bodyOk, body, env)

SpecAccess == Init /\ [][NextAccess]_vars

NextRag ==
  \E mount \in RagMounts, path \in ChatPaths, apiKey \in ApiKeys,
     fieldsOk, storeOk \in BOOLEAN, conversationId \in {"c1", "generated"} :
    RagRequest(mount, path, apiKey, fieldsOk, conversationId, storeOk)

SpecRag == Init /\ [][NextRag]_vars

otherThanContract ==
  <<now, tourists, refresh_tokens, nextId, wallet, revoked, last, pcReg,
    alerts, geofences, lastA, rag_conversations, ragLast, lastGeofence>>

NextContract ==
  \/ \E sender \in Addresses, hash \in Hashes, recordType \in RecordTypes :
       storeHash(sender, hash, recordType) /\ UNCHANGED otherThanContract
  \/ \E sender \in Addresses, recordId \in 0..MaxRecords :
       getHashRecord(sender, recordId) /\ UNCHANGED otherThanContract
  \/ \E sender \in Addresses :
       getHashCount(sender) /\ UNCHANGED otherThanContract
  \/ \E sender \in Addresses, hash \in Hashes :
       verifyHash(sender, hash) /\ UNCHANGED otherThanContract
  \/ \E sender, submitter \in Addresses :
       authorizeSubmitter(sender, submitter) /\ UNCHANGED otherThanContract
  \/ \E sender, submitter \in Addresses :
       revokeSubmitter(sender, submitter) /\ UNCHANGED otherThanContract
  \/ \E sender, submitter \in Addresses :
       isAuthorized(sender, submitter) /\ UNCHANGED otherThanContract

SpecContract == Init /\ [][NextContract]_vars

backendVars ==
  <<now, tourists, refresh_tokens, nextId, wallet, revoked, last, pcReg,
    alerts, geofences, lastA, rag_conversations, ragLast>>

NextGeofence ==
  \/ \E coordinates \in Rings, insertOk \in BOOLEAN :
       createGeofence(coordinates, insertOk) /\ UNCHANGED backendVars
  \/ ParseGeometry /\ UNCHANGED backendVars

SpecGeofence == Init /\ [][NextGeofence]_vars

----------------------------------------------------------------------------
(* Properties *)

Has(ev, e) == \E i \in DOMAIN ev : ev[i] = e
Count(ev, e) == Cardinality({i \in DOMAIN ev : ev[i] = e})
NotifyEvents == {"emit:new_alert", "push", "anchor"}
IsPanic == lastA.route = "POST /api/alerts/panic"

\* C1: in POST /api/alerts/panic the 'new_alert' broadcast, the push and the
\* anchoring come only after the alert row was inserted, and the row is in
\* the table; when the insert fails the answer is 500 and none of the three
\* happens.
C1_InsertThenNotify ==
  IsPanic =>
    /\ \A i \in DOMAIN lastA.events :
         lastA.events[i] \in NotifyEvents =>
           /\ \E j \in 1..(i - 1) : lastA.events[j] = "insert_alert"
           /\ \E a \in alerts : a.id = lastA.alertId
    /\ (lastA.bodyOk /\ ~lastA.env.insertOk) =>
         /\ lastA.status = 500
         /\ \A i \in DOMAIN lastA.events : lastA.events[i] \notin NotifyEvents
         /\ alerts = lastA.before

\* a critical alert was inserted, broadcast, pushed and anchored
C1_Witness ==
  /\ IsPanic
  /\ lastA.status = 201
  /\ \A e \in NotifyEvents : Has(lastA.events, e)

PushWanted == lastA.body.severity \in {"high", "critical"}
AnchorWanted == lastA.body.severity = "critical"
PushFailed == PushWanted /\ ~lastA.env.pushOk
AnchorFailed == AnchorWanted /\ lastA.env.anchor = "throw"

IsAccessToken(token) == token \in wallet /\ token.role \in Roles

\* a step that answers a request to the route (the clock stands still
\* while a request is answered)
Answers(routes) == now' = now /\ last'.route \in routes

\* C3: POST /api/auth/refresh issues an access token only if the refresh
\* token verifies and a row for the token and its user exists whose
\* expires_at has not passed; a refresh that finds the row expired deletes
\* it and answers 401; and once a logout has deleted the rows of a refresh
\* token, every later refresh with that token answers 401.
C3_RefreshAndRevoke ==
  [][Answers({"/api/auth/refresh"}) =>
       /\ last'.status = 200 =>
            /\ JwtVerify(last'.token, now)
            /\ \E r \in refresh_tokens :
                 /\ r.token = last'.token
                 /\ r.user_id = last'.token.userId
                 /\ r.expires_at >= now
       /\ last'.msg = "Refresh token expired" => last'.status = 401
       /\ last'.token \in revoked => last'.status = 401]_vars

\* C4: a handler behind authMiddleware runs only for a Bearer access token
\* that verifies, with req.user set from its claims; every other request is
\* answered 401 and the handler does not run.
C4_AccessTokenOnly ==
  [][Answers(ProtectedMounts) =>
       IF last'.ran
         THEN /\ last'.header.scheme = "Bearer"
              /\ IsAccessToken(last'.header.token)
              /\ JwtVerify(last'.header.token, now)
              /\ last'.user = [userId |-> last'.header.token.userId,
                               email |-> last'.header.token.email,
                               role |-> last'.header.token.role]
         ELSE last'.status = 401]_vars

\* C9: POST /api/auth/logout deletes rows of refresh_tokens only for a
\* request that carries a valid access token; a request without one
\* deletes nothing.
C9_LogoutPrivate ==
  [][Answers({"/api/auth/logout"}) =>
       (refresh_tokens' # refresh_tokens =>
          /\ last'.header.scheme = "Bearer"
          /\ IsAccessToken(last'.header.token)
          /\ JwtVerify(last'.header.token, now))]_vars

IsList == lastA.route = "GET /api/alerts"
IsGet == lastA.route = "GET /api/alerts/:id"
IsPut == lastA.route = "PUT /api/alerts/:id"
Staff == {"police", "admin"}

\* the rows of the table that pass the status filter of the query string
WithStatus(rows, status) == {a \in rows : status # "any" => a.status = status}

\* the role the tourists table holds for the user who sent the request
RoleOf(caller) == (CHOOSE u \in tourists : u.id = caller.userId).role

\* what the two GET routes answer to a caller taken to have the given role
SeesOwnAlerts(role) ==
  /\ (IsList /\ role = "tourist") =>
       \A a \in lastA.result : a.user_id = lastA.caller.userId
  /\ (IsGet /\ role = "tourist") =>
       \A a \in lastA.before :
         a.id = lastA.id =>
           IF a.user_id = lastA.caller.userId
             THEN lastA.env.selectOk =>
                    (lastA.status = 200 /\ lastA.result = {a})
             ELSE /\ lastA.status = 404
                  /\ lastA.msg = "Alert not found"
                  /\ lastA.result = {}
  /\ (IsList /\ role \in Staff /\ lastA.env.selectOk) =>
       lastA.result = Range(WithStatus(lastA.before, lastA.body.status),
                            lastA.id, DefaultLimit)
  /\ (IsGet /\ role \in Staff /\ lastA.env.selectOk) =>
       \A a \in lastA.before :
         a.id = lastA.id => (lastA.status = 200 /\ lastA.result = {a})

\* C5: for a caller who is a tourist, GET /api/alerts returns only the
\* caller's own alerts and GET /api/alerts/:id returns the alert when it is
\* the caller's and answers 404 'Alert not found' when it is someone else's;
\* for police and admin both return the alerts of every user.
C5_TouristSeesOwnAlerts == SeesOwnAlerts(RoleOf(lastA.caller))

\* the same with the role read from the claims of the presented token: this
\* is the filter the two handlers apply
RoleClaimSeesOwnAlerts == SeesOwnAlerts(lastA.caller.role)

\* C6 as stated: PUT /api/alerts/:id by a caller who is neither police nor
\* admin answers 403 'Insufficient permissions', changes no alert row, and
\* emits neither 'alert_updated' nor a push.
C6_PutForbidden ==
  (IsPut /\ lastA.caller.role \notin Staff) =>
    /\ lastA.status = 403
    /\ lastA.msg = "Insufficient permissions"
    /\ alerts = lastA.before
    /\ ~Has(lastA.events, "emit:alert_updated")
    /\ ~Has(lastA.events, "push")

\* C6: PUT /api/alerts/:id by a caller who is neither police nor admin
\* answers 403 'Insufficient permissions' when the body passes
\* updateAlertSchema and 400 'Validation error' when it does not; either way
\* no alert row changes and neither 'alert_updated' nor a push is emitted.
C6_PutForbiddenOrInvalid ==
  (IsPut /\ lastA.caller.role \notin Staff) =>
    /\ lastA.bodyOk =>
         (lastA.status = 403 /\ lastA.msg = "Insufficient permissions")
    /\ ~lastA.bodyOk =>
         (lastA.status = 400 /\ lastA.msg = "Validation error")
    /\ alerts = lastA.before
    /\ ~Has(lastA.events, "emit:alert_updated")
    /\ ~Has(lastA.events, "push")

\* a tourist sent a valid update for an alert that exists and was refused
C6_Witness ==
  /\ IsPut
  /\ lastA.caller.role = "tourist"
  /\ lastA.bodyOk
  /\ lastA.status = 403
  /\ \E a \in alerts : a.id = lastA.id

IsLocation == lastA.route = "POST /api/locations/update"

\* the reported point lies inside an active geofence of type restricted
InRestricted(point) ==
  \E g \in geofences :
    g.is_active /\ g.type = "restricted" /\ point \in g.region

\* the request added exactly one automatic alert for its caller
AutoAlertInserted ==
  /\ Cardinality(alerts) = Cardinality(lastA.before) + 1
  /\ lastA.before \subseteq alerts
  /\ \A a \in alerts \ lastA.before :
       /\ a.type = "geofence_violation"
       /\ a.severity = "medium"
       /\ a.status = "active"
       /\ a.user_id = lastA.caller.userId

\* every step of the handler the alert depends on went through
LocationStepsOk ==
  /\ lastA.bodyOk
  /\ lastA.env.locationOk
  /\ lastA.env.rpc = "ok"
  /\ lastA.env.insertOk

C8_UniqueEmailOr400 ==
  /\ \A u, v \in tourists : u.email = v.email => u = v
  /\ \A p \in Procs :
       (pcReg[p].pc = "done" /\ pcReg[p].taken) =>
         /\ pcReg[p].status = 400
         /\ pcReg[p].msg = "User already exists with this email"
         /\ ~pcReg[p].created
         /\ ~pcReg[p].tokens

\* C10: a handler of the RAG service runs only for a request that presents
\* a valid API key; any other request is rejected before the handler runs.
C10_ApiKeyRequired ==
  (ragLast.mount \in RagMounts /\ ragLast.apiKey # "valid") =>
    (~ragLast.ran /\ ragLast.status \in {401, 403})

\* the steps of the events that carry a rank come in the order of their ranks
InOrder(ev, rank) ==
  \A i, j \in DOMAIN ev :
    (i < j /\ ev[i] \in DOMAIN rank /\ ev[j] \in DOMAIN rank) =>
      rank[ev[i]] < rank[ev[j]]

\* geofence check, push, anchoring, broadcast
SpecOrder ==
  [e \in {"checkGeofences", "push", "anchor", "emit:new_alert"} |->
     CASE e = "checkGeofences" -> 1
       [] e = "push" -> 2
       [] e = "anchor" -> 3
       [] e = "emit:new_alert" -> 4]

\* geofence check, insert, broadcast, push, anchoring, answer
CodeOrder ==
  [e \in {"checkGeofences", "insert_alert", "emit:new_alert", "push",
          "anchor", "res:201"} |->
     CASE e = "checkGeofences" -> 1
       [] e = "insert_alert" -> 2
       [] e = "emit:new_alert" -> 3
       [] e = "push" -> 4
       [] e = "anchor" -> 5
       [] e = "res:201" -> 6]

\* C11 as stated: the panic flow runs the geofence check, then the push,
\* then the anchoring, then the broadcast of 'new_alert'.
C11_SpecOrder ==
  IsPanic => InOrder(lastA.events, SpecOrder)

\* C11: the panic flow runs the geofence check, then the insert of the
\* alert row, then the broadcast of 'new_alert', then the push (severity
\* high or critical), then the anchoring (severity critical), then answers
\* 201; a request answered 201 has run the geofence check, the insert and
\* the broadcast.
C11_CodeOrder ==
  IsPanic =>
    /\ InOrder(lastA.events, CodeOrder)
    /\ lastA.status = 201 =>
         \A e \in {"checkGeofences", "insert_alert", "emit:new_alert",
                   "res:201"} : Count(lastA.events, e) = 1

\* a critical alert at a restricted place went through every step and its
\* anchor was written to the row
C11_Witness ==
  /\ IsPanic
  /\ lastA.status = 201
  /\ lastA.violations # {}
  /\ Has(lastA.events, "push")
  /\ Has(lastA.events, "anchor")
  /\ Has(lastA.events, "update_tx")

\* the request created an alert row
AlertCreated == IsPanic /\ lastA.bodyOk /\ lastA.env.insertOk

\* C12: for an alert created by POST /api/alerts/panic the push is attempted
\* exactly when its severity is critical or high and the anchoring exactly
\* when it is critical; blockchain_tx and blockchain_network of an alert row
\* are set only for a critical alert whose anchoring returned without error.
C12_PushAndAnchorBySeverity ==
  /\ AlertCreated =>
       /\ Has(lastA.events, "push") <=>
            lastA.body.severity \in {"critical", "high"}
       /\ Has(lastA.events, "anchor") <=> lastA.body.severity = "critical"
       /\ \A a \in alerts :
            (a.id = lastA.alertId /\ a.blockchain_tx # "none") =>
              /\ Has(lastA.events, "anchor")
              /\ ~Has(lastA.events, "log:anchor_failed")
              /\ lastA.env.anchor # "throw"
  /\ (IsPanic /\ (Has(lastA.events, "push") \/ Has(lastA.events, "anchor")))
       => AlertCreated
  /\ \A a \in alerts :
       (a.blockchain_tx # "none" \/ a.blockchain_network # "none") =>
         (a.severity = "critical" /\ a.type \in PanicTypes)

\* a critical alert was pushed and anchored and carries the anchor
C12_Witness ==
  /\ AlertCreated
  /\ lastA.body.severity = "critical"
  /\ \E a \in alerts :
       /\ a.id = lastA.alertId
       /\ a.blockchain_tx # "none"
       /\ a.blockchain_network = "mock"

\* s is an initial part of t
IsPrefix(s, t) ==
  /\ Len(s) <= Len(t)
  /\ \A i \in 1..Len(s) : t[i] = s[i]

C14_RoundTrip ==
  /\ lastGeofence.isParsed =>
       /\ lastGeofence.coordinates # <<>>
       /\ lastGeofence.parsed = lastGeofence.coordinates
  /\ lastGeofence.geometry # <<>> =>
       /\ lastGeofence.geometry = PolygonWKT(lastGeofence.coordinates)
       /\ Len(Split(lastGeofence.geometry, <<",", " ">>))
            = Len(lastGeofence.coordinates) + 1

\* a ring of three different corners, one with a negative latitude, was
\* written and parsed back
C14_Witness ==
  /\ lastGeofence.isParsed
  /\ Len(lastGeofence.coordinates) = 3
  /\ Cardinality({lastGeofence.coordinates[i] : i \in 1..3}) = 3
  /\ \E i \in 1..3 : Lat(lastGeofence.coordinates[i]) < 0
  /\ Len(lastGeofence.parsed) = 3

\* the request got as far as its call of checkGeofences
GeofencesChecked ==
  \/ IsPanic /\ lastA.bodyOk
  \/ IsLocation /\ lastA.bodyOk /\ lastA.env.locationOk

\* the rows check_point_in_geofences reports for the point of the request
ReportedRows ==
  {g \in geofences : g.is_active /\ lastA.body.point \in g.region}

\* what the handler of the request does for a point outside every geofence
\* when the geofence check works
AsIfOutside ==
  LET nowhere == CHOOSE p \in Points :
                   \A g \in geofences : p \notin g.region
      env == [lastA.env EXCEPT !.rpc = "ok"]
  IN IF IsPanic
       THEN PanicHandler(lastA.before, lastA.caller, lastA.bodyOk,
                         [lastA.body EXCEPT !.point = nowhere], env)
       ELSE LocationHandler(lastA.before, lastA.caller, lastA.bodyOk,
                            nowhere, env)

\* C15: checkGeofences never throws; when the check_point_in_geofences call
\* returns an error or throws it returns the empty list and the panic and
\* location handlers go on as for a point inside no geofence; otherwise it
\* returns one entry (id, name, type, description) for each reported row.
C15_CheckGeofencesFailsOpen ==
  GeofencesChecked =>
    /\ lastA.env.rpc # "ok" =>
         /\ lastA.violations = {}
         /\ lastA.status = AsIfOutside.status
         /\ lastA.events = AsIfOutside.events
         /\ alerts = AsIfOutside.alerts
    /\ lastA.env.rpc = "ok" =>
         /\ lastA.violations =
              {[id |-> g.id, name |-> g.name, type |-> g.type,
                description |-> g.description] : g \in ReportedRows}
         /\ Cardinality(lastA.violations) = Cardinality(ReportedRows)
    /\ lastA.status = 500 => ~lastA.env.insertOk
    /\ lastA.status \in {200, 201, 500}

\* a location inside a restricted geofence was reported while the geofence
\* check threw, and the request was answered 200 without an alert
C15_Witness ==
  /\ IsLocation
  /\ lastA.body.point = "connaught"
  /\ lastA.env.rpc = "throw"
  /\ lastA.status = 200
  /\ lastA.violations = {}
  /\ alerts = lastA.before

====
